---- MODULE Spec2Model ----
(***************************************************************************)
(* A model of logic.py, the finite-domain first-order-logic evaluator.     *)
(*                                                                         *)
(* The state is the module-level state of logic.py (universe, predicates,  *)
(* free, knowledge_base), the fact table of every Predicate object, the    *)
(* default SATAssign object that Python creates once per interpret method  *)
(* (a default argument value is evaluated when the def statement runs and  *)
(* is shared by all later calls), the formula object the caller holds and  *)
(* the outcome of the last call.                                           *)
(*                                                                         *)
(* A Term with a non-empty name hashes and compares by its name, so a Term *)
(* is modelled by its name; raw strings and Terms of the same name are     *)
(* interchangeable as set members and dictionary keys.  Predicate          *)
(* arguments range over names; nested formula arguments are not part of    *)
(* this development.                                                       *)
(***************************************************************************)
EXTENDS Integers, Sequences, FiniteSets, TLC

VARIABLES
    universe,        \* the Universe set, as the sequence in which it iterates
    predicates,      \* the module-level registry of Predicate objects
    declared,        \* the Predicate objects that have been constructed
    truths,          \* truths[p] is the _truths set of Predicate object p
    free,            \* the FreeVars dictionary
    knowledge_base,  \* the knowledge base; entries are distinct objects
    defaults,        \* defaults[c] is the default bindings object of class c's interpret
    held,            \* the formula object the caller holds
    result           \* what the last call returned or raised

vars == <<universe, predicates, declared, truths, free, knowledge_base,
          defaults, held, result>>

(***************************************************************************)
(* Bounds and input sets.                                                  *)
(***************************************************************************)
\* how many knowledge-base entries a run may insert
MaxKB == 1
\* how many times Predicate.interpret may re-enter itself before the
\* interpreter's recursion limit is hit
MaxRecursion == 4

PredIds == {"P", "R"}
Arity == [p \in PredIds |-> IF p = "P" THEN 1 ELSE 2]

ConstNames == {"a", "b"}
VarNames == {"x", "y"}

NoErr == "none"

(***************************************************************************)
(* Dictionaries (SATAssign, FreeVars) are functions from names to Terms.   *)
(***************************************************************************)
EmptyDict == [k \in {} |-> ""]

SetItem(d, k, v) == [n \in (DOMAIN d) \cup {k} |-> IF n = k THEN v ELSE d[n]]

Range(s) == {s[i] : i \in 1..Len(s)}

InsertAt(s, i, e) == SubSeq(s, 1, i - 1) \o <<e>> \o SubSeq(s, i, Len(s))

\* Term.__init__ without the membership test: a registered name is added again
TermInitMut(u, name) ==
    IF name # ""
    THEN {InsertAt(u, i, name) : i \in 1..(Len(u) + 1)}
    ELSE {u}

(***************************************************************************)
(* Term.__init__: a Term with a non-empty name that is not yet in the      *)
(* universe is added to it.  The universe is a Python set of strings'      *)
(* hashes: where the new element lands in the iteration order depends on   *)
(* its hash, so every position is possible.  The result is the set of      *)
(* universes the construction can leave.                                   *)
(***************************************************************************)
TermInit(u, name) ==
    IF name # "" /\ name \notin Range(u)
    THEN {InsertAt(u, i, name) : i \in 1..(Len(u) + 1)}
    ELSE {u}

\* Term(arg) for each element of args, left to right
RECURSIVE TermInitAll(_, _)
TermInitAll(u, args) ==
    IF args = <<>> THEN {u}
    ELSE UNION {TermInitAll(u1, Tail(args)) : u1 \in TermInit(u, Head(args))}

(***************************************************************************)
(* Formula objects.                                                        *)
(***************************************************************************)
Top == [op |-> "Top"]
Bot == [op |-> "Bot"]
App(p, args) == [op |-> "App", pred |-> p, args |-> args]
And(l, r) == [op |-> "And", left |-> l, right |-> r]
Or(l, r) == [op |-> "Or", left |-> l, right |-> r]
Implies(l, r) == [op |-> "Implies", left |-> l, right |-> r]
Not(e) == [op |-> "Not", expr |-> e]
Forall(x, e) == [op |-> "Forall", binder |-> x, scope |-> e]
Exists(x, e) == [op |-> "Exists", binder |-> x, scope |-> e]
NoFormula == [op |-> "None"]

\* an expression the caller writes: P(args) is a call of Predicate.__call__
Call(p, args) == [op |-> "Call", pred |-> p, args |-> args]

\* Predicate.__call__ deferring only when no argument is in the universe
PredicateCallMut(p, args) ==
    IF \A i \in 1..Len(args) : args[i] \notin Range(universe)
    THEN App(p, args)
    ELSE IF args \in truths[p] THEN Top ELSE Bot

(***************************************************************************)
(* Predicate.__call__ with the right number of arguments: an argument that *)
(* is not in the universe makes the call a deferred App; otherwise the     *)
(* fact table decides between Top and Bot.                                 *)
(***************************************************************************)
PredicateCall(p, args) ==
    IF \E i \in 1..Len(args) : args[i] \notin Range(universe)
    THEN App(p, args)
    ELSE IF args \in truths[p] THEN Top ELSE Bot

(***************************************************************************)
(* What interpret returns: the truth value and the bindings dictionary, or *)
(* the exception it raised (err).  b is the state of the one dictionary    *)
(* object that is threaded through the whole call and mutated in place,    *)
(* also when the call raised.  trace lists, in order, the (binder,         *)
(* element) assignments the quantifiers made.                              *)
(***************************************************************************)
Ret(tv, b, trace) == [tv |-> tv, b |-> b, err |-> NoErr, trace |-> trace]
Raise(e, b, trace) == [tv |-> FALSE, b |-> b, err |-> e, trace |-> trace]

\* one argument of Predicate.interpret's loop, for an argument that resolves
ResolveArg(arg, bindings) ==
    IF arg \in Range(universe) THEN arg
    ELSE IF arg \in DOMAIN bindings THEN bindings[arg]
    ELSE free[arg]

Resolvable(arg, bindings) ==
    \/ arg \in Range(universe)
    \/ arg \in DOMAIN bindings
    \/ arg \in DOMAIN free

(***************************************************************************)
(* Predicate.interpret: resolve every argument, call the predicate again   *)
(* with the resolved arguments and interpret what that returns.  When a    *)
(* resolved argument is not in the universe the call returns a deferred    *)
(* App again, whose interpret re-enters Predicate.interpret.               *)
(***************************************************************************)
RECURSIVE PredicateInterpret(_, _, _, _)
PredicateInterpret(p, args, bindings, depth) ==
    IF \E i \in 1..Len(args) : ~Resolvable(args[i], bindings)
    THEN Raise("ValueError", bindings, <<>>)
    ELSE LET arglist == [i \in 1..Len(args) |-> ResolveArg(args[i], bindings)]
             f == PredicateCall(p, arglist)
         IN  IF f.op = "App"
             THEN IF depth = 0
                  THEN Raise("RecursionError", bindings, <<>>)
                  ELSE PredicateInterpret(p, f.args, bindings, depth - 1)
             ELSE Ret(f.op = "Top", bindings, <<>>)

RECURSIVE Interpret(_, _)
RECURSIVE ForallLoop(_, _, _, _)
RECURSIVE ExistsLoop(_, _, _, _)

\* _And.interpret skipping the right operand when the left one is false
AndInterpretMut(f, bindings) ==
    LET l == Interpret(f.left, bindings)
    IN  IF l.err # NoErr THEN l
        ELSE IF ~l.tv THEN Ret(FALSE, l.b, l.trace)
        ELSE LET r == Interpret(f.right, l.b)
             IN  IF r.err # NoErr THEN Raise(r.err, r.b, l.trace \o r.trace)
                 ELSE Ret(r.tv, r.b, l.trace \o r.trace)

\* _And.interpret
AndInterpret(f, bindings) ==
    LET l == Interpret(f.left, bindings)
    IN  IF l.err # NoErr THEN l
        ELSE LET r == Interpret(f.right, l.b)
             IN  IF r.err # NoErr THEN Raise(r.err, r.b, l.trace \o r.trace)
                 ELSE Ret(l.tv /\ r.tv, r.b, l.trace \o r.trace)

\* _Or.interpret
OrInterpret(f, bindings) ==
    LET l == Interpret(f.left, bindings)
    IN  IF l.err # NoErr THEN l
        ELSE LET r == Interpret(f.right, l.b)
             IN  IF r.err # NoErr THEN Raise(r.err, r.b, l.trace \o r.trace)
                 ELSE Ret(l.tv \/ r.tv, r.b, l.trace \o r.trace)

\* _Implies.interpret
ImpliesInterpret(f, bindings) ==
    LET l == Interpret(f.left, bindings)
    IN  IF l.err # NoErr THEN l
        ELSE IF l.tv
             THEN LET r == Interpret(f.right, l.b)
                  IN  [r EXCEPT !.trace = l.trace \o r.trace]
             ELSE Ret(TRUE, l.b, l.trace)

\* _Not.interpret
NotInterpret(f, bindings) ==
    LET e == Interpret(f.expr, bindings)
    IN  IF e.err # NoErr THEN e ELSE Ret(~e.tv, e.b, e.trace)

\* Forall.interpret without the early return: a false scope is remembered
\* and the remaining elements are still tested
RECURSIVE ForallLoopMut(_, _, _, _)
ForallLoopMut(f, bindings, i, trace) ==
    IF i > Len(universe) THEN Ret(TRUE, bindings, trace)
    ELSE LET s == Interpret(f.scope, SetItem(bindings, f.binder, universe[i]))
             t == trace \o <<(<<f.binder, universe[i]>>)>> \o s.trace
         IN  IF s.err # NoErr THEN Raise(s.err, s.b, t)
             ELSE LET rest == ForallLoopMut(f, s.b, i + 1, t)
                  IN  IF s.tv \/ rest.err # NoErr THEN rest
                      ELSE [rest EXCEPT !.tv = FALSE]

(***************************************************************************)
(* Forall.interpret, from the i-th element of the universe on: bind the    *)
(* binder to the element in the shared dictionary, interpret the scope,    *)
(* return (False, m) on the first false scope and (True, bindings) when    *)
(* the universe is exhausted.                                              *)
(***************************************************************************)
ForallLoop(f, bindings, i, trace) ==
    IF i > Len(universe) THEN Ret(TRUE, bindings, trace)
    ELSE LET s == Interpret(f.scope, SetItem(bindings, f.binder, universe[i]))
             t == trace \o <<(<<f.binder, universe[i]>>)>> \o s.trace
         IN  IF s.err # NoErr THEN Raise(s.err, s.b, t)
             ELSE IF ~s.tv THEN Ret(FALSE, s.b, t)
             ELSE ForallLoop(f, s.b, i + 1, t)

\* Exists.interpret without the early return: the last satisfying element wins
RECURSIVE ExistsLoopMut(_, _, _, _)
ExistsLoopMut(f, bindings, i, trace) ==
    IF i > Len(universe) THEN Ret(FALSE, bindings, trace)
    ELSE LET s == Interpret(f.scope, SetItem(bindings, f.binder, universe[i]))
             t == trace \o <<(<<f.binder, universe[i]>>)>> \o s.trace
         IN  IF s.err # NoErr THEN Raise(s.err, s.b, t)
             ELSE LET rest == ExistsLoopMut(f, s.b, i + 1, t)
                  IN  IF ~s.tv \/ rest.err # NoErr THEN rest
                      ELSE [rest EXCEPT !.tv = TRUE]

(***************************************************************************)
(* Exists.interpret, from the i-th element of the universe on.             *)
(***************************************************************************)
ExistsLoop(f, bindings, i, trace) ==
    IF i > Len(universe) THEN Ret(FALSE, bindings, trace)
    ELSE LET s == Interpret(f.scope, SetItem(bindings, f.binder, universe[i]))
             t == trace \o <<(<<f.binder, universe[i]>>)>> \o s.trace
         IN  IF s.err # NoErr THEN Raise(s.err, s.b, t)
             ELSE IF s.tv THEN Ret(TRUE, s.b, t)
             ELSE ExistsLoop(f, s.b, i + 1, t)

\* f.interpret(bindings=bindings), dispatched on the class of f
Interpret(f, bindings) ==
    CASE f.op = "Top" -> Ret(TRUE, bindings, <<>>)
      [] f.op = "Bot" -> Ret(FALSE, bindings, <<>>)
      [] f.op = "App" -> PredicateInterpret(f.pred, f.args, bindings, MaxRecursion)
      [] f.op = "And" -> AndInterpret(f, bindings)
      [] f.op = "Or" -> OrInterpret(f, bindings)
      [] f.op = "Implies" -> ImpliesInterpret(f, bindings)
      [] f.op = "Not" -> NotInterpret(f, bindings)
      [] f.op = "Forall" -> ForallLoop(f, bindings, 1, <<>>)
      [] f.op = "Exists" -> ExistsLoop(f, bindings, 1, <<>>)

(***************************************************************************)
(* Building a formula object from an expression: every predicate call in   *)
(* it runs Predicate.__call__ against the universe and the fact tables of  *)
(* that moment; the connective and quantifier constructors only store      *)
(* their operands.                                                         *)
(***************************************************************************)
RECURSIVE Construct(_)
Construct(e) ==
    CASE e.op = "Call" -> PredicateCall(e.pred, e.args)
      [] e.op \in {"And", "Or", "Implies"} ->
            [op |-> e.op, left |-> Construct(e.left), right |-> Construct(e.right)]
      [] e.op = "Not" -> Not(Construct(e.expr))
      [] e.op \in {"Forall", "Exists"} ->
            [op |-> e.op, binder |-> e.binder, scope |-> Construct(e.scope)]
      [] OTHER -> e

RECURSIVE PredsOf(_)
PredsOf(e) ==
    CASE e.op = "Call" -> {e.pred}
      [] e.op \in {"And", "Or", "Implies"} -> PredsOf(e.left) \cup PredsOf(e.right)
      [] e.op = "Not" -> PredsOf(e.expr)
      [] e.op \in {"Forall", "Exists"} -> PredsOf(e.scope)
      [] OTHER -> {}

(***************************************************************************)
(* The outcome of the last call.  op names the call, arg lists its string  *)
(* arguments, err the exception it raised (NoErr when it returned); the    *)
(* remaining fields are those of an interpret call, b0 being the bindings  *)
(* dictionary the call started from.                                       *)
(***************************************************************************)
Outcome(op, arg, err) ==
    [op |-> op, arg |-> arg, err |-> err, tv |-> FALSE, b |-> EmptyDict,
     trace |-> <<>>, b0 |-> EmptyDict]

InterpretOutcome(op, arg, r, b0) ==
    [op |-> op, arg |-> arg, err |-> r.err, tv |-> r.tv, b |-> r.b,
     trace |-> r.trace, b0 |-> b0]

\* the classes whose interpret method owns a default bindings object
FormulaClasses == {"Top", "Bot", "App", "And", "Or", "Implies", "Not", "Forall", "Exists"}

(***************************************************************************)
(* The state once the definitions of logic.py have run: the four           *)
(* module-level collections are empty, no Predicate exists, and every      *)
(* default bindings object is the empty SATAssign() its def statement      *)
(* created.  (When the module is loaded with __debug__ set, _tests() and   *)
(* clear_all() then run: the collections are empty again, while the        *)
(* default bindings objects keep what _tests() left in them.)              *)
(***************************************************************************)
Init ==
    /\ universe = <<>>
    /\ predicates = {}
    /\ declared = {}
    /\ truths = [p \in PredIds |-> {}]
    /\ free = EmptyDict
    /\ knowledge_base = <<>>
    /\ defaults = [c \in FormulaClasses |-> EmptyDict]
    /\ held = NoFormula
    /\ result = Outcome("init", <<>>, NoErr)

\* Term(name)
TermNew(name) ==
    /\ universe' \in TermInit(universe, name)
    /\ result' = Outcome("Term", <<name>>, NoErr)
    /\ UNCHANGED <<predicates, declared, truths, free, knowledge_base, defaults, held>>

\* p = Predicate(Arity[p], p): a new object with an empty fact table,
\* added to the registry
PredicateNew(p) ==
    /\ p \notin declared
    /\ declared' = declared \cup {p}
    /\ truths' = [truths EXCEPT ![p] = {}]
    /\ predicates' = predicates \cup {p}
    /\ result' = Outcome("Predicate", <<p>>, NoErr)
    /\ UNCHANGED <<universe, free, knowledge_base, defaults, held>>

\* p.fact(*args), the arguments being strings
PredicateFact(p, args) ==
    /\ p \in declared
    /\ IF Len(args) # Arity[p]
       THEN /\ result' = Outcome("fact", <<p>> \o args, "AssertionError")
            /\ UNCHANGED <<universe, truths>>
       ELSE /\ universe' \in TermInitAll(universe, args)
            /\ truths' = [truths EXCEPT ![p] = @ \cup {args}]
            /\ result' = Outcome("fact", <<p>> \o args, NoErr)
    /\ UNCHANGED <<predicates, declared, free, knowledge_base, defaults, held>>

\* free[key] = val: FreeVars.__setitem__ stores Term(val), which registers val
FreeSetItem(key, val) ==
    /\ universe' \in TermInit(universe, val)
    /\ free' = SetItem(free, key, val)
    /\ result' = Outcome(IF key \in DOMAIN free THEN "bind-warning" ELSE "bind",
                         <<key, val>>, NoErr)
    /\ UNCHANGED <<predicates, declared, truths, knowledge_base, defaults, held>>

\* held = p(*args)
Apply(p, args) ==
    /\ p \in declared
    /\ IF Len(args) # Arity[p]
       THEN /\ result' = Outcome("apply", <<p>> \o args, "AssertionError")
            /\ UNCHANGED held
       ELSE /\ held' = PredicateCall(p, args)
            /\ result' = Outcome("apply", <<p>> \o args, NoErr)
    /\ UNCHANGED <<universe, predicates, declared, truths, free, knowledge_base, defaults>>

\* held = e, for an expression e of connectives, quantifiers and predicate calls
Build(e) ==
    /\ PredsOf(e) \subseteq declared
    /\ held' = Construct(e)
    /\ result' = Outcome("build", <<>>, NoErr)
    /\ UNCHANGED <<universe, predicates, declared, truths, free, knowledge_base, defaults>>

\* held.interpret(): the bindings parameter is the default object of the
\* class of held, which the call mutates in place
InterpretDefault ==
    /\ held.op \in FormulaClasses
    /\ LET b0 == defaults[held.op]
           r == Interpret(held, b0)
       IN  /\ defaults' = [defaults EXCEPT ![held.op] = r.b]
           /\ result' = InterpretOutcome("interpret", <<>>, r, b0)
    /\ UNCHANGED <<universe, predicates, declared, truths, free, knowledge_base, held>>

\* held.interpret(bindings=SATAssign(b))
InterpretWith(b) ==
    /\ held.op \in FormulaClasses
    /\ result' = InterpretOutcome("interpret-with", <<>>, Interpret(held, b), b)
    /\ UNCHANGED <<universe, predicates, declared, truths, free, knowledge_base,
                   defaults, held>>

\* Forall.fact that records the formula without looking at its truth value
ForallFactMut(binder, name) ==
    /\ held.op \in FormulaClasses
    /\ Len(knowledge_base) < MaxKB
    /\ LET F == Forall(binder, held)
           r == Interpret(F, free)
       IN  IF r.err # NoErr
           THEN /\ result' = InterpretOutcome("Forall.fact", <<binder, name>>, r, free)
                /\ UNCHANGED knowledge_base
           ELSE /\ knowledge_base' = Append(knowledge_base, [formula |-> F, name |-> name])
                /\ result' = InterpretOutcome("Forall.fact", <<binder, name>>,
                                              Ret(TRUE, r.b, r.trace), free)
    /\ UNCHANGED <<universe, predicates, declared, truths, free, defaults, held>>

\* Forall.fact(binder, held, name)
ForallFact(binder, name) ==
    /\ held.op \in FormulaClasses
    /\ Len(knowledge_base) < MaxKB
    /\ LET F == Forall(binder, held)
           r == Interpret(F, free)
       IN  IF r.err # NoErr
           THEN /\ result' = InterpretOutcome("Forall.fact", <<binder, name>>, r, free)
                /\ UNCHANGED knowledge_base
           ELSE IF ~r.tv
           THEN /\ result' = InterpretOutcome("Forall.fact", <<binder, name>>,
                                              Raise("Inconsistent", r.b, r.trace), free)
                /\ UNCHANGED knowledge_base
           ELSE /\ knowledge_base' = Append(knowledge_base, [formula |-> F, name |-> name])
                /\ result' = InterpretOutcome("Forall.fact", <<binder, name>>, r, free)
    /\ UNCHANGED <<universe, predicates, declared, truths, free, defaults, held>>

\* clear_all()
ClearAll ==
    /\ universe' = <<>>
    /\ predicates' = {}
    /\ free' = EmptyDict
    /\ knowledge_base' = <<>>
    /\ result' = Outcome("clear_all", <<>>, NoErr)
    /\ UNCHANGED <<declared, truths, defaults, held>>

\* universe.clear()
UniverseClear ==
    /\ universe' = <<>>
    /\ result' = Outcome("universe.clear", <<>>, NoErr)
    /\ UNCHANGED <<predicates, declared, truths, free, knowledge_base, defaults, held>>

(***************************************************************************)
(* Expressions the specifications build.                                   *)
(***************************************************************************)
Leaves == {Top, Bot} \cup {Call("P", <<n>>) : n \in {"a", "x", "y"}}

\* a quantifier over v whose scope is a leaf
Searches(v) ==
    {[op |-> q, binder |-> v, scope |-> s] :
        q \in {"Forall", "Exists"}, s \in {Top, Call("P", <<v>>)}}

\* a connective of a leaf and a quantifier, in both orders
Mixed(conns, leaves, searches) ==
    {[op |-> c, left |-> l, right |-> r] : c \in conns, l \in leaves, r \in searches}
    \cup
    {[op |-> c, left |-> l, right |-> r] : c \in conns, l \in searches, r \in leaves}

Connectives ==
    Mixed({"And", "Or"}, {Bot, Call("P", <<"x">>)}, Searches("x"))
    \cup Mixed({"And", "Or"}, {Call("P", <<"y">>)}, Searches("y"))

Others ==
    {Not(e) : e \in {Bot, Call("P", <<"x">>)}}
    \cup {Implies(l, r) : l \in {Bot, Call("P", <<"x">>)},
                          r \in {Exists("x", Top), Call("P", <<"y">>)}}

Scopes ==
    Leaves \cup Searches("x") \cup Searches("y")
    \cup Mixed({"And"}, {Bot, Call("P", <<"x">>)}, Searches("x"))
    \cup Mixed({"And"}, {Call("P", <<"y">>)}, Searches("y"))

Quantified ==
    {[op |-> q, binder |-> "x", scope |-> s] : q \in {"Forall", "Exists"}, s \in Scopes}

EvalExprs == Connectives \cup Others \cup Quantified

\* the bindings a caller passes explicitly: none, or one variable bound to
\* an element of the universe
EvalBindings ==
    {EmptyDict} \cup {[k \in {v} |-> e] : v \in VarNames, e \in Range(universe)}

(***************************************************************************)
(* SpecEval: formulas are built and interpreted with explicit bindings     *)
(* over universes of up to two elements and a unary predicate.             *)
(***************************************************************************)
NextEval ==
    \/ \E n \in ConstNames : TermNew(n)
    \/ PredicateNew("P")
    \/ \E n \in ConstNames : PredicateFact("P", <<n>>)
    \/ \E e \in EvalExprs : Build(e)
    \/ \E b \in EvalBindings : InterpretWith(b)

SpecEval == Init /\ [][NextEval]_vars

(***************************************************************************)
(* SpecReg: terms, predicates of arity 1 and 2, facts, free variables,     *)
(* predicate applications and their interpretation, and the two resets.    *)
(* Facts and applications are also tried with the wrong number of          *)
(* arguments.                                                              *)
(***************************************************************************)
RegTermNames == {"a", "b", ""}
RegFactArgs == {<<"a">>, <<"b">>, <<"a", "b">>, <<"b", "b">>}
RegApplyArgs == {<<"a">>, <<"x">>, <<"a", "b">>, <<"x", "b">>}

NextReg ==
    \/ \E n \in RegTermNames : TermNew(n)
    \/ \E p \in PredIds : PredicateNew(p)
    \/ \E p \in PredIds, args \in RegFactArgs : PredicateFact(p, args)
    \/ \E v \in ConstNames : FreeSetItem("x", v)
    \/ \E p \in PredIds, args \in RegApplyArgs : Apply(p, args)
    \/ InterpretDefault
    \/ ClearAll
    \/ UniverseClear

SpecReg == Init /\ [][NextReg]_vars

(***************************************************************************)
(* SpecSession: a unary predicate, free variables, quantified formulas     *)
(* interpreted without a bindings argument, and the two resets.            *)
(***************************************************************************)
SessionExprs ==
    {Call("P", <<"x">>), Forall("x", Call("P", <<"x">>)), Forall("y", Call("P", <<"x">>))}

NextSession ==
    \/ \E n \in {"a", "x"} : TermNew(n)
    \/ PredicateNew("P")
    \/ \E n \in {"a", "x"} : PredicateFact("P", <<n>>)
    \/ FreeSetItem("x", "a")
    \/ \E e \in SessionExprs : Build(e)
    \/ InterpretDefault
    \/ \E b \in EvalBindings : InterpretWith(b)
    \/ ClearAll
    \/ UniverseClear

SpecSession == Init /\ [][NextSession]_vars

(***************************************************************************)
(* SpecKB: universal facts are offered to the knowledge base.              *)
(***************************************************************************)
KBExprs ==
    {Top, Call("P", <<"x">>), Call("P", <<"y">>), Not(Call("P", <<"x">>)),
     Exists("y", Call("P", <<"y">>))}

NextKB ==
    \/ \E n \in ConstNames : TermNew(n)
    \/ PredicateNew("P")
    \/ \E n \in ConstNames : PredicateFact("P", <<n>>)
    \/ \E v \in ConstNames : FreeSetItem("y", v)
    \/ \E e \in KBExprs : Build(e)
    \/ \E name \in {"None", "named"} : ForallFact("x", name)

SpecKB == Init /\ [][NextKB]_vars

(***************************************************************************)
(* Quantifier search, stated independently of the loops above.             *)
(*                                                                         *)
(* Steps(f, b0)[i] is what interpreting the scope of quantifier f returns  *)
(* for the i-th element of the universe when the elements are taken in     *)
(* turn: the binder is set to the element in the bindings the previous     *)
(* element left.  Steps(f, b0)[0] stands for the state before the search.  *)
(***************************************************************************)
Steps(f, b0) ==
    LET st[i \in 0..Len(universe)] ==
            IF i = 0 THEN Ret(TRUE, b0, <<>>)
            ELSE Interpret(f.scope, SetItem(st[i - 1].b, f.binder, universe[i]))
    IN  st

\* the assignments made when exactly the first k elements are tested
Tested(f, b0, k) ==
    LET st == Steps(f, b0)
        tr[i \in 0..k] ==
            IF i = 0 THEN <<>>
            ELSE tr[i - 1] \o <<(<<f.binder, universe[i]>>)>> \o st[i].trace
    IN  tr[k]

\* the positions at which the search for a falsifying (satisfying) element ends
ForallStops(f, b0) ==
    {i \in 1..Len(universe) : Steps(f, b0)[i].err # NoErr \/ ~Steps(f, b0)[i].tv}

ExistsStops(f, b0) ==
    {i \in 1..Len(universe) : Steps(f, b0)[i].err # NoErr \/ Steps(f, b0)[i].tv}

Min(S) == CHOOSE i \in S : \A j \in S : i <= j

\* the names bound by the quantifiers of f
RECURSIVE Binders(_)
Binders(f) ==
    CASE f.op \in {"And", "Or", "Implies"} -> Binders(f.left) \cup Binders(f.right)
      [] f.op = "Not" -> Binders(f.expr)
      [] f.op \in {"Forall", "Exists"} -> {f.binder} \cup Binders(f.scope)
      [] OTHER -> {}

\* held.interpret(bindings=...) has just returned or raised
Interpreted == result.op = "interpret-with"

\* what a search over `stops` must have produced
SearchOutcome(stops, exhausted) ==
    IF stops = {}
    THEN /\ result.err = NoErr
         /\ result.tv = exhausted
         /\ result.b = Steps(held, result.b0)[Len(universe)].b
         /\ result.trace = Tested(held, result.b0, Len(universe))
    ELSE LET k == Min(stops)
             s == Steps(held, result.b0)[k]
         IN  /\ result.err = s.err
             /\ s.err = NoErr => result.tv = ~exhausted
             /\ result.b = s.b
             /\ result.trace = Tested(held, result.b0, k)
             /\ (s.err = NoErr /\ held.binder \notin Binders(held.scope))
                    => result.b[held.binder] = universe[k]

(***************************************************************************)
(* C1 (as amended).  Forall(x, scope).interpret is true iff the scope      *)
(* interprets to true for every element of the universe, the elements      *)
(* taken in turn (true over an empty universe); when it is false the       *)
(* search stopped at the first falsifying element in enumeration order, no *)
(* later element was tested, and the returned bindings are those the       *)
(* scope's interpretation left at that element: they map x to the          *)
(* falsifying element whenever no quantifier inside the scope binds x.     *)
(***************************************************************************)
C1_ForallSearch ==
    (Interpreted /\ held.op = "Forall")
        => SearchOutcome(ForallStops(held, result.b0), TRUE)

\* a false Forall over two elements that stopped at the first one
C1_Witness ==
    /\ Interpreted
    /\ held.op = "Forall"
    /\ result.err = NoErr
    /\ ~result.tv
    /\ Len(universe) = 2
    /\ Min(ForallStops(held, result.b0)) = 1
    /\ result.trace = <<(<<held.binder, universe[1]>>)>>
    /\ result.b[held.binder] = universe[1]

(***************************************************************************)
(* C1 as stated: for any scope, also one that contains a quantifier        *)
(* binding the same name x, a false Forall returns bindings that map x to  *)
(* the first falsifying element.                                           *)
(***************************************************************************)
C1_AsStated ==
    (Interpreted /\ held.op = "Forall" /\ result.err = NoErr /\ ~result.tv)
        => result.b[held.binder] = universe[Min(ForallStops(held, result.b0))]

(***************************************************************************)
(* C2 (as amended).  Exists(x, scope).interpret is true iff the scope      *)
(* interprets to true for at least one element of the universe, the        *)
(* elements taken in turn (false over an empty universe); when it is true  *)
(* the search stopped at the first satisfying element in enumeration       *)
(* order and the returned bindings are those the scope's interpretation    *)
(* left at that element: they map x to the satisfying element whenever no  *)
(* quantifier inside the scope binds x.                                    *)
(***************************************************************************)
C2_ExistsSearch ==
    (Interpreted /\ held.op = "Exists")
        => SearchOutcome(ExistsStops(held, result.b0), FALSE)

\* a true Exists over two elements whose first element did not satisfy
C2_Witness ==
    /\ Interpreted
    /\ held.op = "Exists"
    /\ result.err = NoErr
    /\ result.tv
    /\ Len(universe) = 2
    /\ Min(ExistsStops(held, result.b0)) = 2
    /\ result.b[held.binder] = universe[2]

(***************************************************************************)
(* C2 as stated: for any scope, also one that contains a quantifier        *)
(* binding the same name x, a true Exists returns bindings that map x to   *)
(* the first satisfying element.                                           *)
(***************************************************************************)
C2_AsStated ==
    (Interpreted /\ held.op = "Exists" /\ result.err = NoErr /\ result.tv)
        => result.b[held.binder] = universe[Min(ExistsStops(held, result.b0))]

(***************************************************************************)
(* C8.  And(l, r) and Or(l, r) never short-circuit: l is interpreted       *)
(* first, then r under the bindings l returned, whatever truth value l     *)
(* produced; the truth value is the conjunction (And) or disjunction (Or)  *)
(* of the two and the returned bindings are those r returned.              *)
(***************************************************************************)
C8_BothOperands ==
    (Interpreted /\ held.op \in {"And", "Or"})
        => LET l == Interpret(held.left, result.b0)
               r == Interpret(held.right, l.b)
           IN  IF l.err # NoErr THEN result.err = l.err
               ELSE /\ result.err = r.err
                    /\ result.b = r.b
                    /\ result.trace = l.trace \o r.trace
                    /\ r.err = NoErr =>
                          result.tv = IF held.op = "And" THEN l.tv /\ r.tv
                                      ELSE l.tv \/ r.tv

\* a conjunction whose left operand is false and whose right operand still
\* ran: the quantifier on the right left its binding in the result
C8_Witness ==
    /\ Interpreted
    /\ held.op = "And"
    /\ held.right.op \in {"Forall", "Exists"}
    /\ Interpret(held.left, result.b0).err = NoErr
    /\ ~Interpret(held.left, result.b0).tv
    /\ result.err = NoErr
    /\ ~result.tv
    /\ result.trace # <<>>
    /\ held.right.binder \in DOMAIN result.b
    /\ held.right.binder \notin DOMAIN result.b0

(***************************************************************************)
(* C3.  Predicate.__call__ with arity-many arguments decides by universe   *)
(* membership at call time: with every argument in the universe the result *)
(* is Top exactly when the tuple is in the fact table and Bot otherwise;   *)
(* with an argument outside the universe it is the deferred App of the     *)
(* predicate and the arguments.  The fact tables and the universe are left *)
(* unchanged.                                                              *)
(***************************************************************************)
C3_ApplyDecides ==
    [][(result'.op = "apply" /\ result'.err = NoErr) =>
          LET p == Head(result'.arg)
              args == Tail(result'.arg)
          IN  /\ universe' = universe
              /\ truths' = truths
              /\ Len(args) = Arity[p]
              /\ held' = IF \A i \in 1..Len(args) : args[i] \in Range(universe)
                         THEN IF args \in truths[p] THEN Top ELSE Bot
                         ELSE App(p, args)]_vars

\* the binary predicate applied to two universe members it has a fact for
C3_Witness ==
    /\ result.op = "apply"
    /\ result.err = NoErr
    /\ Head(result.arg) = "R"
    /\ \A i \in 1..2 : Tail(result.arg)[i] \in Range(universe)
    /\ Tail(result.arg) \in truths["R"]
    /\ held = Top

(***************************************************************************)
(* C6 as stated.  After clear_all() the universe, the free-variable store  *)
(* and the knowledge base are empty and the fact table of every Predicate  *)
(* declared before the reset is empty.                                     *)
(***************************************************************************)
C6_AsStated ==
    result.op = "clear_all" =>
        /\ universe = <<>>
        /\ free = EmptyDict
        /\ knowledge_base = <<>>
        /\ \A p \in declared : truths[p] = {}

(***************************************************************************)
(* C9 (as amended).  Without a reset the universe holds at most one        *)
(* element per name, no element is ever removed, and a call adds exactly   *)
(* the non-empty names it constructs a Term for that were not registered   *)
(* yet: a Term (or a fact, or a free-variable binding) with a registered   *)
(* name leaves the size unchanged, a first use of a new non-empty name     *)
(* increases it by exactly one, and a Term with an empty name is never     *)
(* registered.                                                             *)
(***************************************************************************)
IsReset(r) == r.op \in {"clear_all", "universe.clear"}

\* the names the call behind outcome r constructed a Term for
TermsMade(r) ==
    CASE r.op = "Term" -> {r.arg[1]}
      [] r.op = "fact" /\ r.err = NoErr -> Range(Tail(r.arg))
      [] r.op \in {"bind", "bind-warning"} -> {r.arg[2]}
      [] OTHER -> {}

C9_UniverseGrows ==
    [][~IsReset(result') =>
          /\ Cardinality(Range(universe')) = Len(universe')
          /\ Range(universe) \subseteq Range(universe')
          /\ Len(universe') = Len(universe)
                + Cardinality({n \in TermsMade(result') :
                                  n # "" /\ n \notin Range(universe)})]_vars

\* R.fact("b", "b") has run and the universe holds "b" once
C9_Witness ==
    /\ result.op = "fact"
    /\ result.arg = <<"R", "b", "b">>
    /\ result.err = NoErr
    /\ universe = <<"b">>

(***************************************************************************)
(* C9 as stated: constructing a Term with a name that is not registered    *)
(* increases the size of the universe by exactly one.                      *)
(***************************************************************************)
C9_AsStated ==
    [][(result'.op = "Term" /\ result'.arg[1] \notin Range(universe))
          => Len(universe') = Len(universe) + 1]_vars

(***************************************************************************)
(* C10 as stated.  In every reachable state every tuple in every           *)
(* Predicate's fact table has exactly that predicate's arity many Terms    *)
(* and each of them is a current member of the universe.                   *)
(***************************************************************************)
C10_AsStated ==
    \A p \in declared : \A t \in truths[p] :
        /\ Len(t) = Arity[p]
        /\ \A i \in 1..Len(t) : t[i] \in Range(universe)

(***************************************************************************)
(* C4 as stated.  Interpreting a deferred predicate application resolves   *)
(* each argument name by the first rule that matches: a universe member is *)
(* a constant, otherwise the local binding, otherwise the free variable,   *)
(* otherwise the call fails as unbound.  When every name resolves the call *)
(* returns, the truth value is true iff the resolved tuple is in the fact  *)
(* table, and the bindings returned are the local bindings it started      *)
(* from.                                                                   *)
(***************************************************************************)
Unbound == "?"

ByFirstRule(n, b0) ==
    IF n \in Range(universe) THEN n
    ELSE IF n \in DOMAIN b0 THEN b0[n]
    ELSE IF n \in DOMAIN free THEN free[n]
    ELSE Unbound

C4_AsStated ==
    (result.op \in {"interpret", "interpret-with"} /\ held.op = "App") =>
        LET t == [i \in 1..Len(held.args) |-> ByFirstRule(held.args[i], result.b0)]
        IN  IF \E i \in 1..Len(t) : t[i] = Unbound
            THEN result.err = "ValueError"
            ELSE /\ result.err = NoErr
                 /\ result.tv = (t \in truths[held.pred])
                 /\ result.b = result.b0

(***************************************************************************)
(* C7 as stated.  A top-level interpret without a bindings argument starts *)
(* from an empty local binding environment: what it returns or raises is   *)
(* what interpreting the formula under no local bindings gives, whatever   *)
(* earlier top-level calls have bound.                                     *)
(***************************************************************************)
C7_AsStated ==
    result.op = "interpret" =>
        LET fresh == Interpret(held, EmptyDict)
        IN  /\ result.err = fresh.err
            /\ result.tv = fresh.tv
            /\ result.b = fresh.b

(***************************************************************************)
(* C5.  Forall.fact(binder, scope, name) is a validating insert: when      *)
(* Forall(binder, scope) interprets to false against the current fact      *)
(* tables, universe and free variables the call raises the inconsistency   *)
(* error and the knowledge base is what it was; when it interprets to true *)
(* (formula, name) is added.  Nothing else adds to the knowledge base, so  *)
(* every entry interpreted to true when it was inserted.                   *)
(***************************************************************************)
C5_ValidatingInsert ==
    [][LET F == Forall(result'.arg[1], held)
           now == Interpret(F, EmptyDict)
           entry == [formula |-> F, name |-> result'.arg[2]]
       IN  /\ result'.op = "Forall.fact" =>
                 /\ now.err # NoErr =>
                       result'.err = now.err /\ knowledge_base' = knowledge_base
                 /\ (now.err = NoErr /\ ~now.tv) =>
                       result'.err = "Inconsistent" /\ knowledge_base' = knowledge_base
                 /\ (now.err = NoErr /\ now.tv) =>
                       result'.err = NoErr
                       /\ knowledge_base' = Append(knowledge_base, entry)
           /\ (result'.op # "Forall.fact" /\ knowledge_base' # knowledge_base) =>
                 knowledge_base' = <<>>]_vars

\* a universal fact about the predicate was accepted over two elements
C5_Witness ==
    /\ result.op = "Forall.fact"
    /\ result.err = NoErr
    /\ Len(universe) = 2
    /\ Len(knowledge_base) = 1
    /\ knowledge_base[1].formula.scope.op \in {"App", "Not"}
    /\ Interpret(knowledge_base[1].formula, EmptyDict).tv

====
